---------------------------- MODULE Spec2Model ----------------------------
(***************************************************************************)
(* Model of words.py: the substitution table, replace_string, the suffix   *)
(* DP find_suffixes, the worker process_word and the driver main (argument *)
(* parsing, Pool.map over the word list, the merge loop and the dump).     *)
(*                                                                         *)
(* A string is a sequence of one-character strings; a word and a           *)
(* digit-string are both such sequences.  Offsets are 0-based as in the    *)
(* code; s[p + 1] is the character at offset p.                            *)
(***************************************************************************)
EXTENDS Integers, Sequences, FiniteSets, TLC

(***************************************************************************)
(* Bounds of the model.                                                    *)
(***************************************************************************)
\* longest word given to the pure functions
MaxWordLen == 3
\* minlen and maxlen range over 0..MaxBound
MaxBound == 3
\* longest input word list of a run of main
MaxWords == 2
\* --workers ranges over 0..MaxWorkers
MaxWorkers == 2

(***************************************************************************)
(* Characters.  str.isdigit accepts every character of Unicode numeric     *)
(* type Digit or Decimal, not only 0-9; SUPERSCRIPT TWO stands for the     *)
(* ones outside ASCII.  str.lower leaves all characters used here alone.   *)
(***************************************************************************)
AsciiDigits == {"0", "1", "2", "3", "4", "5", "6", "7", "8", "9"}

UnicodeDigits == {"²"}

\* characters of the words given to the pure functions: an expanding key
\* (d -> 17), a one-digit key, a letter that is no key, a digit of ASCII and
\* a digit outside it
Alphabet == {"d", "o", "x", "7", "²"}

RECURSIVE StringsUpTo(_, _)
StringsUpTo(A, n) ==
    IF n = 0 THEN {<<>>}
    ELSE LET shorter == StringsUpTo(A, n - 1)
         IN  shorter \cup {Append(s, c) : s \in shorter, c \in A}

Words == StringsUpTo(Alphabet, MaxWordLen)

\* the lines of the word lists given to main (a blank line is the empty word)
Lexicon == {<<>>, <<"d">>, <<"o", "d">>, <<"i", "7">>, <<"²">>}

(***************************************************************************)
(* The substitution table.                                                 *)
(***************************************************************************)
\* the keys of subs in dict (insertion) order
subs_keys == << <<"o">>, <<"s">>, <<"a">>, <<"b">>, <<"e">>, <<"i">>, <<"d">>, <<"r">> >>

subs ==
    ( <<"o">> :> <<"0">> ) @@ ( <<"s">> :> <<"5">> ) @@ ( <<"a">> :> <<"4">> ) @@
    ( <<"b">> :> <<"8">> ) @@ ( <<"e">> :> <<"3">> ) @@ ( <<"i">> :> <<"1">> ) @@
    ( <<"d">> :> <<"1", "7">> ) @@ ( <<"r">> :> <<"1", "2">> )

MaxKeyLen == CHOOSE n \in 1..8 :
    /\ \E k \in DOMAIN subs : Len(k) = n
    /\ \A k \in DOMAIN subs : Len(k) <= n

\* sorted(subs.keys(), key=len, reverse=True): a stable sort, longest first
RECURSIVE sorted_by_len(_, _)
sorted_by_len(keys, n) ==
    IF n = 0 THEN <<>>
    ELSE SelectSeq(keys, LAMBDA k : Len(k) = n) \o sorted_by_len(keys, n - 1)

KEYS_BY_LEN == sorted_by_len(subs_keys, MaxKeyLen)

\* word.startswith(key, i), and the regex matching literal key at offset i
startswith(word, key, i) ==
    /\ i + Len(key) <= Len(word)
    /\ \A j \in 1..Len(key) : word[i + j] = key[j]

\* PATTERN at offset p: the first alternative (in KEYS_BY_LEN order) that
\* matches, as its index in KEYS_BY_LEN; 0 when none matches
pattern_match(s, p) ==
    LET hits == {n \in 1..Len(KEYS_BY_LEN) : startswith(s, KEYS_BY_LEN[n], p)}
    IN  IF hits = {} THEN 0 ELSE CHOOSE n \in hits : \A m \in hits : n <= m

\* PATTERN.sub from offset p on: a match is replaced by its value and the
\* scan resumes after it; an unmatched character is copied
RECURSIVE sub_from(_, _)
sub_from(s, p) ==
    IF p >= Len(s) THEN <<>>
    ELSE LET n == pattern_match(s, p)
         IN  IF n # 0
             THEN subs[KEYS_BY_LEN[n]] \o sub_from(s, p + Len(KEYS_BY_LEN[n]))
             ELSE <<s[p + 1]>> \o sub_from(s, p + 1)

replace_string(s) == sub_from(s, 0)

\* str.isdigit: non-empty, every character a digit
isdigit(s) ==
    /\ Len(s) > 0
    /\ \A j \in 1..Len(s) : s[j] \in AsciiDigits \cup UnicodeDigits

\* word[i:]
suffix_from(word, i) == SubSeq(word, i + 1, Len(word))


(***************************************************************************)
(* find_suffixes: the feasibility table and the candidate extraction.      *)
(***************************************************************************)
\* the inner loop over KEYS_BY_LEN at offset i: some key ends inside the
\* word at a feasible offset and matches at i
dp_step_unchecked(word, dp, i) ==
    \E n \in 1..Len(KEYS_BY_LEN) :
        LET key == KEYS_BY_LEN[n]
            end == i + Len(key)
        IN  end <= Len(word) /\ startswith(word, key, i)

dp_step(word, dp, i) ==
    \E n \in 1..Len(KEYS_BY_LEN) :
        LET key == KEYS_BY_LEN[n]
            end == i + Len(key)
        IN  end <= Len(word) /\ dp[end] /\ startswith(word, key, i)

\* the outer loop, for i in range(N-1, -1, -1), from offset i down
RECURSIVE dp_fill_from_one(_, _, _)
dp_fill_from_one(word, dp, i) ==
    IF i < 1 THEN dp
    ELSE dp_fill_from_one(word, [dp EXCEPT ![i] = dp_step(word, dp, i)], i - 1)

RECURSIVE dp_fill(_, _, _)
dp_fill(word, dp, i) ==
    IF i < 0 THEN dp
    ELSE dp_fill(word, [dp EXCEPT ![i] = dp_step(word, dp, i)], i - 1)

\* dp = [False]*(N+1); dp[N] = True; then the loop
dp_table(word) ==
    dp_fill(word, [i \in 0..Len(word) |-> i = Len(word)], Len(word) - 1)

\* the results set: one candidate per feasible offset, kept when it is all
\* digits and its length is within [mn, mx]
find_suffixes(word, mn, mx) ==
    LET dp == dp_table(word)
        kept == {i \in 0..(Len(word) - 1) :
                    /\ dp[i]
                    /\ isdigit(replace_string(suffix_from(word, i)))
                    /\ mn <= Len(replace_string(suffix_from(word, i)))
                    /\ Len(replace_string(suffix_from(word, i))) <= mx}
    IN  {replace_string(suffix_from(word, i)) : i \in kept}

(***************************************************************************)
(* process_word.  The list built from the results set has the set's        *)
(* iteration order, which the code does not fix: the operator gives every  *)
(* list the call may return.                                               *)
(***************************************************************************)
Orderings(S) ==
    {f \in [1..Cardinality(S) -> S] :
        \A a, b \in 1..Cardinality(S) : a # b => f[a] # f[b]}

process_word(word, mode, mn, mx) ==
    IF mode = "word"
    THEN LET replaced == replace_string(word)
         IN  IF isdigit(replaced) /\ mn <= Len(replaced) /\ Len(replaced) <= mx
             THEN {<< <<replaced, word>> >>}
             ELSE {<<>>}
    ELSE IF Len(word) < mn
         THEN {<<>>}
         ELSE Orderings({<<suf, word>> : suf \in find_suffixes(word, mn, mx)})

(***************************************************************************)
(* Reference: every full segmentation of s into consecutive keys, as the   *)
(* set of digit-strings the segmentations give.                            *)
(***************************************************************************)
RECURSIVE Segmentations(_)
Segmentations(s) ==
    IF s = <<>> THEN {<<>>}
    ELSE UNION { {subs[k] \o r : r \in Segmentations(suffix_from(s, Len(k)))} :
                 k \in {k \in DOMAIN subs : startswith(s, k, 0)} }

BruteSuffixes(w, mn, mx) ==
    {r \in UNION {Segmentations(suffix_from(w, i)) : i \in 0..(Len(w) - 1)} :
        mn <= Len(r) /\ Len(r) <= mx}

\* the digit-strings of a list of (digit-string, word) pairs
KeysOf(list) == {list[j][1] : j \in 1..Len(list)}


(***************************************************************************)
(* State.                                                                  *)
(*   A run of main: pc is main's position, input_lines the lines           *)
(*   load_words yields (stripped and lower-cased), args the parsed         *)
(*   arguments, task_state and running the pool's tasks and workers,       *)
(*   all_results the list pool.map assembles, finished the task indices in *)
(*   the order their results came back, mapping the Grouping, cursor the   *)
(*   position of the merge loops, out_file what yaml.dump wrote.           *)
(*   Calls of the pure functions on one word: fn_*.                        *)
(***************************************************************************)
VARIABLES pc, input_lines, args, task_state, running, all_results, finished,
          mapping, cursor, out_file,
          fn_pc, fn_word, fn_mn, fn_mx, fn_mode, fn_replaced, fn_dp,
          fn_suffixes, fn_out

main_vars == <<pc, input_lines, args, task_state, running, all_results,
               finished, mapping, cursor, out_file>>

fn_vars == <<fn_pc, fn_word, fn_mn, fn_mx, fn_mode, fn_replaced, fn_dp,
             fn_suffixes, fn_out>>

vars == <<main_vars, fn_vars>>

\* --mode choices
ModeChoices == {"word", "suffix"}

\* what may be given on the command line: a mode outside the choices too
ModeInputs == ModeChoices \cup {"prefix"}

NoArgs == [mode |-> "", minlen |-> 0, maxlen |-> 0, workers |-> 0]

EmptySlot == [filled |-> FALSE, val |-> <<>>]

MainIdle ==
    /\ pc = "idle"
    /\ input_lines = <<>>
    /\ args = NoArgs
    /\ task_state = <<>>
    /\ running = <<>>
    /\ all_results = <<>>
    /\ finished = <<>>
    /\ mapping = <<>>
    /\ cursor = <<1, 1>>
    /\ out_file = [written |-> FALSE, content |-> <<>>]

FnIdle ==
    /\ fn_pc = "idle"
    /\ fn_word = <<>>
    /\ fn_mn = 0
    /\ fn_mx = 0
    /\ fn_mode = ""
    /\ fn_replaced = <<>>
    /\ fn_dp = <<>>
    /\ fn_suffixes = {}
    /\ fn_out = <<>>

(***************************************************************************)
(* main.                                                                   *)
(***************************************************************************)
Init ==
    /\ pc = "start"
    /\ input_lines \in UNION {[1..n -> Lexicon] : n \in 0..MaxWords}
    /\ args = NoArgs
    /\ task_state = <<>>
    /\ running = <<>>
    /\ all_results = <<>>
    /\ finished = <<>>
    /\ mapping = <<>>
    /\ cursor = <<1, 1>>
    /\ out_file = [written |-> FALSE, content |-> <<>>]
    /\ FnIdle

\* parse_args: argparse rejects a mode outside the choices (exit status 2)
\* and checks nothing else about minlen, maxlen and workers
parse_args ==
    /\ pc = "start"
    /\ \E mode \in ModeInputs, mn \in 0..MaxBound, mx \in 0..MaxBound,
          workers \in 0..MaxWorkers :
          IF mode \in ModeChoices
          THEN /\ args' = [mode |-> mode, minlen |-> mn, maxlen |-> mx,
                           workers |-> workers]
               /\ pc' = "parsed"
          ELSE /\ args' = args
               /\ pc' = "usage_error"
    /\ UNCHANGED <<input_lines, task_state, running, all_results, finished,
                   mapping, cursor, out_file, fn_vars>>

\* Pool(args.workers), then pool.map turns the tasks generator into a list
\* (load_words is read to its end) and hands the tasks out.  Pool raises
\* ValueError for a worker count below 1.
start_map ==
    /\ pc = "parsed"
    /\ IF args.workers < 1
       THEN /\ pc' = "crashed"
            /\ UNCHANGED <<task_state, running, all_results>>
       ELSE /\ pc' = "map"
            /\ task_state' = [i \in 1..Len(input_lines) |-> "pending"]
            /\ running' = [w \in 1..args.workers |-> 0]
            /\ all_results' = [i \in 1..Len(input_lines) |-> EmptySlot]
    /\ UNCHANGED <<input_lines, args, finished, mapping, cursor, out_file,
                   fn_vars>>

\* an idle worker takes a task that no worker has taken
worker_take(w, i) ==
    /\ pc = "map"
    /\ running[w] = 0
    /\ task_state[i] = "pending"
    /\ running' = [running EXCEPT ![w] = i]
    /\ task_state' = [task_state EXCEPT ![i] = "running"]
    /\ UNCHANGED <<pc, input_lines, args, all_results, finished, mapping,
                   cursor, out_file, fn_vars>>

\* a map that stores each result in the next free slot as it comes back
place_in_finish_order(results, i, r) ==
    LET free == {j \in 1..Len(results) : ~results[j].filled}
        first == CHOOSE j \in free : \A k \in free : j <= k
    IN  [results EXCEPT ![first] = [filled |-> TRUE, val |-> r]]

\* the list Pool.map assembles: each result is stored at its task's index

place_result(results, i, r) ==
    [results EXCEPT ![i] = [filled |-> TRUE, val |-> r]]

\* the worker runs process_word on its task and hands the list back
worker_finish(w) ==
    /\ pc = "map"
    /\ running[w] # 0
    /\ LET i == running[w]
       IN  /\ \E r \in process_word(input_lines[i], args.mode, args.minlen,
                                    args.maxlen) :
                 all_results' = place_result(all_results, i, r)
           /\ task_state' = [task_state EXCEPT ![i] = "done"]
           /\ finished' = Append(finished, i)
    /\ running' = [running EXCEPT ![w] = 0]
    /\ UNCHANGED <<pc, input_lines, args, mapping, cursor, out_file, fn_vars>>

\* the position of the next pair of the merge loops at or after <<i, j>>:
\* empty sublists are passed over; <<Len + 1, 1>> when no pair is left
RECURSIVE next_pair(_, _, _)
next_pair(results, i, j) ==
    IF i > Len(results) THEN <<Len(results) + 1, 1>>
    ELSE IF j <= Len(results[i].val) THEN <<i, j>>
    ELSE next_pair(results, i + 1, 1)

\* pool.map returns once every task is done; mapping = {}
map_return ==
    /\ pc = "map"
    /\ \A i \in 1..Len(task_state) : task_state[i] = "done"
    /\ pc' = "merge"
    /\ mapping' = <<>>
    /\ cursor' = next_pair(all_results, 1, 1)
    /\ UNCHANGED <<input_lines, args, task_state, running, all_results,
                   finished, out_file, fn_vars>>

\* mapping.setdefault(key, []).append(word)
setdefault_overwrite(m, key, word) ==
    [k \in DOMAIN m \cup {key} |-> IF k = key THEN <<word>> ELSE m[k]]

setdefault_seeded(m, key, word) ==
    [k \in DOMAIN m \cup {key} |->
        IF k # key THEN m[k]
        ELSE IF key \in DOMAIN m THEN Append(m[key], word)
        ELSE <<word, word>>]

setdefault_append(m, key, word) ==
    [k \in DOMAIN m \cup {key} |->
        IF k # key THEN m[k]
        ELSE IF key \in DOMAIN m THEN Append(m[key], word)
        ELSE <<word>>]

\* one iteration of the inner merge loop
merge_step ==
    /\ pc = "merge"
    /\ cursor[1] <= Len(all_results)
    /\ LET pair == all_results[cursor[1]].val[cursor[2]]
       IN  mapping' = setdefault_append(mapping, pair[1], pair[2])
    /\ cursor' = next_pair(all_results, cursor[1], cursor[2] + 1)
    /\ UNCHANGED <<pc, input_lines, args, task_state, running, all_results,
                   finished, out_file, fn_vars>>

\* the loops are over: yaml.dump(mapping, fout, sort_keys=True)
dump ==
    /\ pc = "merge"
    /\ cursor[1] > Len(all_results)
    /\ out_file' = [written |-> TRUE, content |-> mapping]
    /\ pc' = "done"
    /\ UNCHANGED <<input_lines, args, task_state, running, all_results,
                   finished, mapping, cursor, fn_vars>>

Next ==
    \/ parse_args
    \/ start_map
    \/ \E w \in DOMAIN running, i \in DOMAIN task_state : worker_take(w, i)
    \/ \E w \in DOMAIN running : worker_finish(w)
    \/ map_return
    \/ merge_step
    \/ dump

Spec == Init /\ [][Next]_vars

(***************************************************************************)
(* The pure functions on one word: the inputs are drawn in FnInit, then    *)
(* replace_string, find_suffixes and process_word are called on them.      *)
(***************************************************************************)
FnInit ==
    /\ MainIdle
    /\ fn_pc = "input"
    /\ fn_word \in Words
    /\ fn_mn \in 0..MaxBound
    /\ fn_mx \in 0..MaxBound
    /\ fn_mode = ""
    /\ fn_replaced = <<>>
    /\ fn_dp = <<>>
    /\ fn_suffixes = {}
    /\ fn_out = <<>>

call_replace_string ==
    /\ fn_pc = "input"
    /\ fn_replaced' = replace_string(fn_word)
    /\ fn_pc' = "replaced"
    /\ UNCHANGED <<fn_word, fn_mn, fn_mx, fn_mode, fn_dp, fn_suffixes, fn_out,
                   main_vars>>

call_find_suffixes ==
    /\ fn_pc = "replaced"
    /\ fn_dp' = dp_table(fn_word)
    /\ fn_suffixes' = find_suffixes(fn_word, fn_mn, fn_mx)
    /\ fn_pc' = "segmented"
    /\ UNCHANGED <<fn_word, fn_mn, fn_mx, fn_mode, fn_replaced, fn_out,
                   main_vars>>

call_process_word ==
    /\ fn_pc = "segmented"
    /\ \E mode \in ModeChoices :
          /\ fn_mode' = mode
          /\ fn_out' \in process_word(fn_word, mode, fn_mn, fn_mx)
    /\ fn_pc' = "processed"
    /\ UNCHANGED <<fn_word, fn_mn, fn_mx, fn_replaced, fn_dp, fn_suffixes,
                   main_vars>>

FnNext ==
    \/ call_replace_string
    \/ call_find_suffixes
    \/ call_process_word

FnSpec == FnInit /\ [][FnNext]_vars


(***************************************************************************)
(* Helpers of the properties.                                              *)
(***************************************************************************)
InRange(r, mn, mx) == mn <= Len(r) /\ Len(r) <= mx

OnlyAsciiDigits(r) == \A j \in 1..Len(r) : r[j] \in AsciiDigits

Segmented == fn_pc \in {"segmented", "processed"}

Merging == pc \in {"merge", "done"}

Count(list, x) == Cardinality({j \in 1..Len(list) : list[j] = x})

\* the pairs of list from position j on, merged into m one after the other
RECURSIVE MergeList(_, _, _)
MergeList(m, list, j) ==
    IF j > Len(list) THEN m
    ELSE MergeList(setdefault_append(m, list[j][1], list[j][2]), list, j + 1)

\* the Grouping of a single worker taking the words from the i-th on, one by
\* one in input order
RECURSIVE SequentialGrouping(_, _)
SequentialGrouping(m, i) ==
    IF i > Len(input_lines) THEN m
    ELSE LET r == CHOOSE l \in process_word(input_lines[i], args.mode,
                                            args.minlen, args.maxlen) : TRUE
         IN  SequentialGrouping(MergeList(m, r, 1), i + 1)

\* the digit-strings of the i-th per-word result that the merge loops have
\* passed
MergedKeys(i) ==
    LET upto == IF i < cursor[1] THEN Len(all_results[i].val)
                ELSE IF i = cursor[1] THEN cursor[2] - 1
                ELSE 0
    IN  {all_results[i].val[j][1] : j \in 1..upto}

\* the input words at the indices in idx, from the i-th on, in input order
RECURSIVE WordsAt(_, _)
WordsAt(idx, i) ==
    IF i > Len(input_lines) THEN <<>>
    ELSE (IF i \in idx THEN <<input_lines[i]>> ELSE <<>>) \o WordsAt(idx, i + 1)

\* every digit-string some per-word result holds
AllResultKeys == UNION {KeysOf(all_results[i].val) : i \in DOMAIN all_results}

ValidConfig ==
    /\ args.mode \in ModeChoices
    /\ args.minlen > 0
    /\ args.maxlen > 0
    /\ args.minlen <= args.maxlen

(***************************************************************************)
(* C1.  Completeness of suffix mode: find_suffixes(w, mn, mx) is the set   *)
(* of digit-strings that some full segmentation into keys of some          *)
(* non-empty suffix of w gives and whose length is within [mn, mx].        *)
(***************************************************************************)
C1_SuffixCompleteness ==
    Segmented => fn_suffixes = BruteSuffixes(fn_word, fn_mn, fn_mx)

\* a word with a non-key character, of which two suffixes give a result
C1_Witness ==
    /\ Segmented
    /\ Cardinality(fn_suffixes) >= 2
    /\ \E j \in 1..Len(fn_word) : <<fn_word[j]>> \notin DOMAIN subs

(***************************************************************************)
(* C2.  The len(word) < mn short-circuit of suffix mode changes no output: *)
(* process_word returns exactly the pairs (r, w), r in find_suffixes(w).   *)
(***************************************************************************)
C2_ShortCircuitIsPure ==
    (fn_pc = "processed" /\ fn_mode = "suffix") =>
        /\ {fn_out[j] : j \in 1..Len(fn_out)} =
               {<<r, fn_word>> : r \in fn_suffixes}
        /\ Len(fn_out) = Cardinality(fn_suffixes)

(***************************************************************************)
(* C3.  Word mode is the segmenter restricted to offset 0: process_word    *)
(* returns [(r, w)] exactly when w is non-empty and wholly decomposable    *)
(* into keys, r is the concatenation of the keys' values and its length is *)
(* within [mn, mx]; otherwise it returns the empty list.                   *)
(***************************************************************************)
C3_WordModeIsOffsetZero ==
    (fn_pc = "processed" /\ fn_mode = "word") =>
        LET good == {r \in Segmentations(fn_word) :
                        /\ fn_word # <<>>
                        /\ fn_dp[0]
                        /\ InRange(r, fn_mn, fn_mx)}
        IN  IF good # {}
            THEN \E r \in good : fn_out = << <<r, fn_word>> >>
            ELSE fn_out = <<>>

(***************************************************************************)
(* C7.  Length-bound boundary: in both modes a candidate (the substitution *)
(* of the wholly key-covered word in word mode, of any key-covered suffix  *)
(* in suffix mode) is in the output exactly when its length is within      *)
(* [mn, mx].                                                               *)
(***************************************************************************)
C7_LengthBoundary ==
    fn_pc = "processed" =>
        LET offsets == IF fn_mode = "word" THEN {0} ELSE 0..(Len(fn_word) - 1)
            cands == {replace_string(suffix_from(fn_word, i)) :
                         i \in {i \in offsets : i < Len(fn_word) /\ fn_dp[i]}}
        IN  \A r \in cands : (r \in KeysOf(fn_out)) <=> InRange(r, fn_mn, fn_mx)

(***************************************************************************)
(* C9.  The DP agrees with the greedy pass: dp[N] holds, dp[i] holds       *)
(* exactly when some key matches at i and dp holds after it, and wherever  *)
(* dp[i] holds replace_string(w[i:]) is a non-empty string of the digits   *)
(* 0-9, so the isdigit check discards no feasible offset.                  *)
(***************************************************************************)
C9_DpAgreesWithGreedy ==
    Segmented =>
        /\ fn_dp[Len(fn_word)]
        /\ \A i \in 0..(Len(fn_word) - 1) :
              /\ fn_dp[i] <=>
                     \E k \in DOMAIN subs :
                         startswith(fn_word, k, i) /\ fn_dp[i + Len(k)]
              /\ fn_dp[i] =>
                     /\ isdigit(replace_string(suffix_from(fn_word, i)))
                     /\ OnlyAsciiDigits(replace_string(suffix_from(fn_word, i)))

\* a key matches at an offset where dp is false, and dp holds further on
C9_Witness ==
    /\ Segmented
    /\ \E i, j \in 0..(Len(fn_word) - 1) :
          /\ i < j
          /\ ~fn_dp[i]
          /\ <<fn_word[i + 1]>> \in DOMAIN subs
          /\ fn_dp[j]

(***************************************************************************)
(* C4.  The merge is deterministic and keeps the input order: whatever     *)
(* the number of workers, the assignment of words to workers and the order *)
(* in which the tasks finish, the final Grouping is the one a single       *)
(* worker taking the words one by one in input order gives.                *)
(***************************************************************************)
C4_DeterministicMerge ==
    pc = "done" =>
        /\ mapping = SequentialGrouping(<<>>, 1)
        /\ out_file.content = SequentialGrouping(<<>>, 1)

\* two workers, the second task finished first, and one key lists two
\* different words
C4_Witness ==
    /\ pc = "done"
    /\ args.workers >= 2
    /\ Len(finished) >= 2
    /\ finished[1] > finished[2]
    /\ \E k \in DOMAIN mapping :
          Len(mapping[k]) >= 2 /\ mapping[k][1] # mapping[k][2]

(***************************************************************************)
(* C5.  Merge semantics: after any prefix of the merge, for every          *)
(* digit-string k the list Grouping[k] is the input words, in input order  *)
(* and one per occurrence, whose merged per-word result holds k; a         *)
(* digit-string of no merged result is no key (an empty input gives an     *)
(* empty Grouping).                                                        *)
(***************************************************************************)
C5_MergeSemantics ==
    Merging =>
        /\ DOMAIN mapping \subseteq AllResultKeys
        /\ \A k \in AllResultKeys :
              LET idx == {i \in DOMAIN all_results : k \in MergedKeys(i)}
              IN  IF idx = {} THEN k \notin DOMAIN mapping
                  ELSE k \in DOMAIN mapping /\ mapping[k] = WordsAt(idx, 1)

\* the same word twice in the input, both occurrences listed under a key
C5_Witness ==
    /\ pc = "done"
    /\ \E k \in DOMAIN mapping :
          Len(mapping[k]) = 2 /\ mapping[k][1] = mapping[k][2]

(***************************************************************************)
(* C6.  Grouping key invariant: after any prefix of the merge, whatever    *)
(* the integers minlen and maxlen, every key of the Grouping is a          *)
(* non-empty string of the characters 0-9 whose length is within           *)
(* [minlen, maxlen], and its word list is non-empty.                       *)
(***************************************************************************)
C6_GroupingKeyInvariant ==
    Merging =>
        \A k \in DOMAIN mapping :
            /\ Len(k) > 0
            /\ OnlyAsciiDigits(k)
            /\ InRange(k, args.minlen, args.maxlen)
            /\ Len(mapping[k]) > 0

(***************************************************************************)
(* C8.  Fail-fast configuration validation: a run with an invalid mode, a  *)
(* non-positive length bound or minlen > maxlen never reaches the          *)
(* processing or the merge and writes no output.                           *)
(***************************************************************************)
C8_FailFastConfig ==
    (pc \in {"map", "merge", "done"} \/ out_file.written) => ValidConfig

(***************************************************************************)
(* C10.  One entry per word occurrence per key: no per-word result holds a *)
(* digit-string twice, so under every key a word is listed at most as      *)
(* often as it occurs in the input, and the final Grouping is the same for *)
(* every order of the per-word results.                                    *)
(***************************************************************************)
C10_OneEntryPerOccurrence ==
    /\ \A i \in DOMAIN all_results :
          Cardinality(KeysOf(all_results[i].val)) = Len(all_results[i].val)
    /\ Merging =>
          \A k \in DOMAIN mapping : \A w \in Lexicon :
              Count(mapping[k], w) <= Count(input_lines, w)
    /\ pc = "done" => mapping = SequentialGrouping(<<>>, 1)

\* a word that occurs twice and gives two digit-strings has been merged
C10_Witness ==
    /\ pc = "done"
    /\ \E i, j \in DOMAIN all_results :
          /\ i # j
          /\ input_lines[i] = input_lines[j]
          /\ Len(all_results[i].val) >= 2

=============================================================================
